---- MODULE Spec2Model ----
(***************************************************************************)
(* scripts/helper.py of libwetcloth: the scene particle patcher.           *)
(*                                                                         *)
(* The script reads a scene file line by line, splits it into a preamble,  *)
(* a grid of particle lines (blocks closed by blank lines) and a           *)
(* postamble, rewrites the fixed and group attributes of a fixed set of    *)
(* grid cells by string replacement, and writes the result to another      *)
(* file together with two injected script lines.                           *)
(*                                                                         *)
(* A line of text is a record                                              *)
(*   kind  : "particle" (the line starts with <particle), "blank"          *)
(*           (line.strip() is empty) or "other";                           *)
(*   id    : the number of the line in the input file; it stands for the   *)
(*           rest of the line's text (two lines with different ids are     *)
(*           different strings); 0 for text the script itself writes;      *)
(*   fixed, group : the values of the fixed="..." and group="..."          *)
(*           attributes in the line ("-" when the line has none);          *)
(*   nl    : whether the line ends with a newline character (only the      *)
(*           last line of a file can lack it).                             *)
(***************************************************************************)
EXTENDS Integers, Sequences, FiniteSets, TLC

VARIABLES
    file,                 \* the input file (its descriptor, see Input)
    pc,                   \* the statement the script is at
    pre_point_contents,   \* line 6
    post_point_contents,  \* line 7
    all_points,           \* line 8: the grid, a list of blocks
    points,               \* line 9: the block being read
    i,                    \* the loop variable of line 33
    out,                  \* the output file: whether it exists and what was written
    touched               \* history: the cells the mutation loop has accessed

vars == <<file, pc, pre_point_contents, post_point_contents,
          all_points, points, i, out, touched>>

(***************************************************************************)
(* Program constants.                                                      *)
(***************************************************************************)
\* line 27 (the script never reads it)
n == 100
ofs1 == 10
width1 == 10
ofs2 == 20
\* the literal 98 of range(ofs2, 98 - ofs2), [i, 98 - i] and all_points[l + 98]
side == 98

(***************************************************************************)
(* Bounds of the model.                                                    *)
(***************************************************************************)
\* longest of the short input files that are enumerated exhaustively
MaxLen == 3

(***************************************************************************)
(* Lines of text.                                                          *)
(***************************************************************************)
Line(kind, fx, gr) ==
    [kind |-> kind, id |-> 0, fixed |-> fx, group |-> gr, nl |-> TRUE]

Particle(fx, gr) == Line("particle", fx, gr)
Other == Line("other", "-", "-")
Blank == Line("blank", "-", "-")

\* the string "\n" of f.write("\n")
Newline == Blank

\* the two literal script lines written by the serialization
ScriptLine(g) == Line("other", "-", ToString(g))

\* line.startswith("<particle")
startswith_particle(line) == line.kind = "particle"

\* line.strip() == ""
is_blank(line) == line.kind = "blank"

\* line.replace('fixed="0"', 'fixed="1"')
replace_fixed(line) ==
    IF line.fixed = "0" THEN [line EXCEPT !.fixed = "1"] ELSE line

\* a replacement that rewrites the group attribute whatever its value
replace_group_any(line, old, group_id) ==
    IF line.group # "-" THEN [line EXCEPT !.group = ToString(group_id)] ELSE line

\* line.replace('group="<old>"', 'group="' + str(group_id) + '"')
replace_group(line, old, group_id) ==
    IF line.group = old THEN [line EXCEPT !.group = ToString(group_id)] ELSE line

(***************************************************************************)
(* Input files.  A short file is any sequence of at most MaxLen lines; a   *)
(* grid file is a scene file with a preamble, blocks of particle lines     *)
(* closed by blank lines, and a tail.  Line numbers and the missing        *)
(* newline of the last line are filled in by Number.                       *)
(***************************************************************************)
Number(lines, eofnl) ==
    [p \in 1..Len(lines) |->
        [lines[p] EXCEPT !.id = p, !.nl = (p < Len(lines)) \/ eofnl]]

RECURSIVE ConcatRange(_, _, _)
ConcatRange(f, lo, hi) ==
    IF lo > hi THEN <<>>
    ELSE IF lo = hi THEN f[lo]
    ELSE LET mid == (lo + hi) \div 2
         IN ConcatRange(f, lo, mid) \o ConcatRange(f, mid + 1, hi)

\* the blocks of a list of blocks, one after the other
Flatten(grid) == ConcatRange(grid, 1, Len(grid))

Kinds == {"particle", "blank", "other"}

KindLine(kind) ==
    IF kind = "particle" THEN Particle("0", "0")
    ELSE IF kind = "blank" THEN Blank ELSE Other

ShortFiles ==
    {[shape |-> "short", pat |-> "-", tail |-> "-", body |-> b,
      eofnl |-> e, stale |-> s] :
        b \in UNION {[1..m -> Kinds] : m \in 0..MaxLen},
        e \in BOOLEAN, s \in BOOLEAN}

GridFile(shape, pat, tail, eofnl, stale) ==
    [shape |-> shape, pat |-> pat, tail |-> tail, body |-> <<>>,
     eofnl |-> eofnl, stale |-> stale]

\* 196 blocks of 98 lines, fixed="0", group "0" in the first half of the
\* blocks and "1" in the second
FullHalves == GridFile("full", "halves", "plain", TRUE, FALSE)
\* the smallest grid the mutation loop completes on, with every kind of
\* attribute value, blank lines among the lines after the grid, and no
\* newline at the end of the file
MinMixed == GridFile("min", "mixed", "blankpost", FALSE, TRUE)
\* the smallest grid again, with a non-particle line inside a block and
\* particle lines after the last blank line
MinUnflushed == GridFile("min", "halves", "unflushed", TRUE, FALSE)
\* grids that lack a cell the mutation loop accesses
Blocks175 == GridFile("blocks175", "halves", "plain", TRUE, TRUE)
Row15Short == GridFile("row15short", "mixed", "plain", TRUE, FALSE)
Row80Short == GridFile("row80short", "halves", "plain", TRUE, FALSE)
Row175Short == GridFile("row175short", "halves", "plain", TRUE, FALSE)

GridFiles ==
    {FullHalves, MinMixed, MinUnflushed, Blocks175, Row15Short, Row80Short,
     Row175Short}

NumBlocks(shape) ==
    IF shape = "full" THEN 196 ELSE IF shape = "blocks175" THEN 175 ELSE 176

\* the number of particle lines of block r (from 0)
RowLen(shape, r) ==
    IF shape = "full" THEN 98
    ELSE IF shape = "row15short" /\ r = 15 THEN 77
    ELSE IF shape = "row80short" /\ r = 80 THEN 77
    ELSE IF shape = "row175short" /\ r = 175 THEN 88
    ELSE IF r \in 10..19 \/ r \in 79..88 THEN 78
    ELSE IF r \in 118..175 THEN 89
    ELSE IF r % 2 = 0 THEN 1 ELSE 0

FixedAt(pat, r, c) ==
    IF pat = "halves" THEN "0"
    ELSE IF (r + c) % 3 = 0 THEN "1" ELSE "0"

GroupAt(pat, r, c) ==
    IF pat = "halves" THEN (IF r < 98 THEN "0" ELSE "1")
    ELSE <<"0", "1", "2", "10", "11">>[((r + 2 * c) % 5) + 1]

BlockLines(d, r) ==
    LET row == [c \in 1..RowLen(d.shape, r) |->
                   Particle(FixedAt(d.pat, r, c - 1), GroupAt(d.pat, r, c - 1))]
    IN IF d.tail = "unflushed" /\ r = 12
       THEN SubSeq(row, 1, 5) \o <<Other>> \o SubSeq(row, 6, Len(row)) \o <<Blank>>
       ELSE row \o <<Blank>>

TailLines(tail) ==
    IF tail = "plain" THEN <<Other, Other>>
    ELSE IF tail = "blankpost" THEN <<Other, Blank, Other>>
    ELSE <<Other, Particle("0", "0"), Particle("0", "1"), Other>>

GridLines(d) ==
    Number(<<Other, Blank, Other>>
           \o ConcatRange([r \in 1..NumBlocks(d.shape) |-> BlockLines(d, r - 1)],
                          1, NumBlocks(d.shape))
           \o TailLines(d.tail),
           d.eofnl)

GridContents == [d \in GridFiles |-> GridLines(d)]

\* the lines of the input file (line 10)
InputOf(d) ==
    IF d.shape = "short"
    THEN Number([p \in 1..Len(d.body) |-> KindLine(d.body[p])], d.eofnl)
    ELSE GridContents[d]

Input == InputOf(file)

\* the output file before the run: absent, or left by an earlier run
NoFile == [exists |-> FALSE, writes |-> <<>>]
StaleFile == [exists |-> TRUE, writes |-> <<(<<Other>>)>>]
InitialOut(d) == IF d.stale THEN StaleFile ELSE NoFile

(***************************************************************************)
(* Parsing: lines 6-25.                                                    *)
(***************************************************************************)
Init ==
    /\ file \in ShortFiles \cup GridFiles
    /\ pc = "head"
    /\ pre_point_contents = <<>>
    /\ post_point_contents = <<>>
    /\ all_points = <<>>
    /\ points = <<>>
    /\ i = ofs1
    /\ out = InitialOut(file)
    /\ touched = <<>>

\* the body of the first loop (lines 12-16) on the next line of the file;
\* st.pos: the lines read from the file so far, st.broke: the loop met its
\* break
HeadStep(st, lines) ==
    LET line == lines[st.pos + 1] IN
    IF startswith_particle(line)
    THEN [st EXCEPT !.points = Append(@, line), !.pos = @ + 1, !.broke = TRUE]
    ELSE [st EXCEPT !.pre = Append(@, line), !.pos = @ + 1]

\* the first loop (lines 11-16), from st until its break or line hi is read
RECURSIVE HeadLoop(_, _, _)
HeadLoop(lines, hi, st) ==
    IF st.broke \/ st.pos >= hi THEN st
    ELSE IF st.pos + 1 = hi THEN HeadStep(st, lines)
    ELSE HeadLoop(lines, hi, HeadLoop(lines, (st.pos + hi) \div 2, st))

\* the second loop without its else branch: other lines are not kept
BodyStep_no_else(st, lines) ==
    LET line == lines[st.pos + 1] IN
    IF startswith_particle(line)
    THEN [st EXCEPT !.points = Append(@, line), !.pos = @ + 1]
    ELSE IF is_blank(line)
    THEN [st EXCEPT !.all_points = Append(@, st.points), !.points = <<>>,
                    !.pos = @ + 1]
    ELSE [st EXCEPT !.pos = @ + 1]

\* the body of the second loop (lines 19-25) on the next line of the file
BodyStep(st, lines) ==
    LET line == lines[st.pos + 1] IN
    IF startswith_particle(line)
    THEN [st EXCEPT !.points = Append(@, line), !.pos = @ + 1]
    ELSE IF is_blank(line)
    THEN [st EXCEPT !.all_points = Append(@, st.points), !.points = <<>>,
                    !.pos = @ + 1]
    ELSE [st EXCEPT !.post = Append(@, line), !.pos = @ + 1]

\* the second loop (lines 18-25), from st until line hi is read
RECURSIVE BodyLoop(_, _, _)
BodyLoop(lines, hi, st) ==
    IF st.pos >= hi THEN st
    ELSE IF st.pos + 1 = hi THEN BodyStep(st, lines)
    ELSE BodyLoop(lines, hi, BodyLoop(lines, (st.pos + hi) \div 2, st))

\* lines 10-25: both loops read the same file object, the second goes on
\* where the first stopped
ReadFile ==
    /\ pc = "head"
    /\ LET lines == Input
           head == HeadLoop(lines, Len(lines),
                            [pre |-> pre_point_contents, points |-> points,
                             pos |-> 0, broke |-> FALSE])
           body == BodyLoop(lines, Len(lines),
                            [all_points |-> all_points, points |-> head.points,
                             post |-> post_point_contents, pos |-> head.pos])
       IN /\ pre_point_contents' = head.pre
          /\ all_points' = body.all_points
          /\ points' = body.points
          /\ post_point_contents' = body.post
    /\ pc' = "mutate"
    /\ UNCHANGED <<file, i, out, touched>>

(***************************************************************************)
(* Mutation: lines 33-49.                                                  *)
(***************************************************************************)
\* the index mirrored inside the band of rows [ofs1, ofs1 + width1)
indices1_in_band(ii) == <<ii, 2 * ofs1 + width1 - 1 - ii>>

\* the mirrored index off by one
indices1_off_by_one(ii) == <<ii, side - 1 - ii>>

\* line 35
indices1(ii) == <<ii, side - ii>>

\* the two group ids exchanged
GroupId_exchanged(ii, k) == IF ii = k THEN 11 ELSE 10

\* line 39
GroupId(ii, k) == IF ii = k THEN 10 ELSE 11

\* the two cells a pass of the loop body accesses: all_points[k][l] and
\* all_points[l + 98][k]
FirstCell(k, l) == <<k, l>>
SecondCell(k, l) == <<l + side, k>>

\* all_points[cell[1]][cell[2]] exists (Python's indices, from 0; none is
\* negative here)
InRange(grid, cell) ==
    /\ cell[1] + 1 \in DOMAIN grid
    /\ cell[2] + 1 \in DOMAIN grid[cell[1] + 1]

\* lines 40-43 with the group literal of lines 47-49
TouchFirst_group_1(grid, k, l, group_id) ==
    [grid EXCEPT ![FirstCell(k, l)[1] + 1][FirstCell(k, l)[2] + 1] =
        replace_group(replace_fixed(@), "1", group_id)]

\* lines 40-43
TouchFirst(grid, k, l, group_id) ==
    [grid EXCEPT ![FirstCell(k, l)[1] + 1][FirstCell(k, l)[2] + 1] =
        replace_group(replace_fixed(@), "0", group_id)]

\* lines 44-49 without the replacement of lines 44-46
TouchSecond_group_only(grid, k, l, group_id) ==
    [grid EXCEPT ![SecondCell(k, l)[1] + 1][SecondCell(k, l)[2] + 1] =
        replace_group(@, "1", group_id)]

\* lines 44-49
TouchSecond(grid, k, l, group_id) ==
    [grid EXCEPT ![SecondCell(k, l)[1] + 1][SecondCell(k, l)[2] + 1] =
        replace_group(replace_fixed(@), "1", group_id)]

\* an entry of the history: the cell accessed, the i and k it was accessed
\* with, and whether as all_points[k][l] (kind 1) or all_points[l + 98][k]
Access(cell, ii, k, kind) ==
    [row |-> cell[1], col |-> cell[2], i |-> ii, k |-> k, kind |-> kind]

\* the passes of the loop body for one i (the loops of lines 34 and 37), and
\* for all i
PassesPerRow == 2 * ((side - ofs2) - ofs2)
TotalPasses == width1 * PassesPerRow

\* pass number m (from 0) of the loop body, lines 39-49, on st.grid;
\* st.failed: a pass has indexed outside the grid (at line 40, or at line 44
\* when lines 40-43 have been done) and the script has ended
LoopPass(st, m) ==
    LET ii == ofs1 + (m \div PassesPerRow)
        l == ofs2 + ((m % PassesPerRow) \div 2)
        k == indices1(ii)[(m % 2) + 1]
        group_id == GroupId(ii, k)
    IN IF ~InRange(st.grid, FirstCell(k, l))
       THEN [st EXCEPT !.failed = TRUE]
       ELSE IF ~InRange(st.grid, SecondCell(k, l))
       THEN [st EXCEPT !.grid = TouchFirst(@, k, l, group_id),
                       !.log = Append(@, Access(FirstCell(k, l), ii, k, 1)),
                       !.failed = TRUE]
       ELSE [st EXCEPT !.grid = TouchSecond(TouchFirst(@, k, l, group_id),
                                            k, l, group_id),
                       !.log = @ \o <<Access(FirstCell(k, l), ii, k, 1),
                                      Access(SecondCell(k, l), ii, k, 2)>>,
                       !.m = @ + 1]

\* the passes from number st.m up to (not including) number hi, in the
\* order of the loops, ending at a pass that fails
RECURSIVE Loops(_, _)
Loops(hi, st) ==
    IF st.failed \/ st.m >= hi THEN st
    ELSE IF st.m + 1 = hi THEN LoopPass(st, st.m)
    ELSE Loops(hi, Loops((st.m + hi) \div 2, st))

\* the passes of the loop body for the current i
RowPasses ==
    Loops((i - ofs1 + 1) * PassesPerRow,
          [grid |-> all_points, log |-> touched,
           m |-> (i - ofs1) * PassesPerRow, failed |-> FALSE])

\* one iteration of the loop of line 33: lines 34-49 for the current i,
\* every pass within the grid
Mutate ==
    /\ pc = "mutate"
    /\ LET st == RowPasses
       IN /\ ~st.failed
          /\ all_points' = st.grid
          /\ touched' = st.log
    /\ IF i + 1 < ofs1 + width1
       THEN i' = i + 1 /\ UNCHANGED pc
       ELSE pc' = "open" /\ UNCHANGED i
    /\ UNCHANGED <<file, pre_point_contents, post_point_contents, points, out>>

\* the same with the output file opened before the loop
IndexError_file_opened ==
    /\ pc = "mutate"
    /\ LET st == RowPasses
       IN /\ st.failed
          /\ all_points' = st.grid
          /\ touched' = st.log
    /\ pc' = "IndexError"
    /\ out' = [exists |-> TRUE, writes |-> <<>>]
    /\ UNCHANGED <<file, pre_point_contents, post_point_contents, points, i>>

\* an iteration of the loop of line 33 with a pass that indexes outside the
\* grid: the script ends at that pass, with the passes before it done
IndexError ==
    /\ pc = "mutate"
    /\ LET st == RowPasses
       IN /\ st.failed
          /\ all_points' = st.grid
          /\ touched' = st.log
    /\ pc' = "IndexError"
    /\ UNCHANGED <<file, pre_point_contents, post_point_contents, points, i, out>>

(***************************************************************************)
(* Serialization: lines 55-75.  The text written is kept as the list of    *)
(* the writes, the writes of one statement (for the loop of lines 68-70,   *)
(* of one block) together; the file holds them one after the other.        *)
(***************************************************************************)
\* the script lines written in the wrong order
InjectedLines_swapped == <<Newline, ScriptLine(11), ScriptLine(10), Newline>>

\* lines 59-66
InjectedLines == <<Newline, ScriptLine(10), ScriptLine(11), Newline>>

\* line 55: open(output_filepath, "w") creates the file or empties it
OpenOutput ==
    /\ pc = "open"
    /\ out' = [exists |-> TRUE, writes |-> <<>>]
    /\ pc' = "pre"
    /\ UNCHANGED <<file, pre_point_contents, post_point_contents,
                   all_points, points, i, touched>>

\* lines 56-57
WritePreamble ==
    /\ pc = "pre"
    /\ out' = [out EXCEPT !.writes = Append(@, pre_point_contents)]
    /\ pc' = "scripts"
    /\ UNCHANGED <<file, pre_point_contents, post_point_contents,
                   all_points, points, i, touched>>

\* lines 59-66
WriteScripts ==
    /\ pc = "scripts"
    /\ out' = [out EXCEPT !.writes = Append(@, InjectedLines)]
    /\ pc' = "grid"
    /\ UNCHANGED <<file, pre_point_contents, post_point_contents,
                   all_points, points, i, touched>>

\* lines 68-70
WriteGrid ==
    /\ pc = "grid"
    /\ out' = [out EXCEPT !.writes = @ \o all_points]
    /\ pc' = "post"
    /\ UNCHANGED <<file, pre_point_contents, post_point_contents,
                   all_points, points, i, touched>>

\* lines 72-75
WritePostamble ==
    /\ pc = "post"
    /\ out' = [out EXCEPT !.writes =
                  @ \o <<(<<Newline>>), post_point_contents, (<<Newline>>)>>]
    /\ pc' = "done"
    /\ UNCHANGED <<file, pre_point_contents, post_point_contents,
                   all_points, points, i, touched>>

\* the text of the output file, piece by piece
Written == Flatten(out.writes)

Next ==
    \/ ReadFile
    \/ Mutate
    \/ IndexError
    \/ OpenOutput
    \/ WritePreamble
    \/ WriteScripts
    \/ WriteGrid
    \/ WritePostamble

Spec == Init /\ [][Next]_vars

(***************************************************************************)
(* The input and the output as the properties below read them.             *)
(***************************************************************************)
\* the number of the first line of the file that starts with <particle
\* (0: the file has none)
FirstParticle(lines) ==
    IF \E p \in 1..Len(lines) : startswith_particle(lines[p])
    THEN CHOOSE p \in 1..Len(lines) :
            /\ startswith_particle(lines[p])
            /\ \A q \in 1..(p - 1) : ~startswith_particle(lines[q])
    ELSE 0

\* the lines before the first particle line
PreambleIn(lines) ==
    IF FirstParticle(lines) = 0 THEN lines
    ELSE SubSeq(lines, 1, FirstParticle(lines) - 1)

IsPostLine(line) == ~startswith_particle(line) /\ ~is_blank(line)

\* the lines after the first particle line that are neither particle lines
\* nor blank
PostambleIn(lines) ==
    IF FirstParticle(lines) = 0 THEN <<>>
    ELSE SelectSeq(SubSeq(lines, FirstParticle(lines) + 1, Len(lines)), IsPostLine)

\* the numbers of the blank lines after the first particle line, ascending
BlankAfter(lines) ==
    LET fp == FirstParticle(lines)
        IsSep(p) == fp > 0 /\ p > fp /\ is_blank(lines[p])
    IN SelectSeq([p \in 1..Len(lines) |-> p], IsSep)

\* the blocks of the file: the particle lines between the first particle
\* line, or a blank line after it, and the next blank line
BlocksIn(lines) ==
    LET fp == FirstParticle(lines)
        seps == BlankAfter(lines)
    IN [b \in 1..Len(seps) |->
           SelectSeq(SubSeq(lines, IF b = 1 THEN fp ELSE seps[b - 1] + 1,
                            seps[b] - 1),
                     startswith_particle)]

\* the particle lines of the file, in order
ParticlesIn(lines) == SelectSeq(lines, startswith_particle)

Ids(lines) == [p \in 1..Len(lines) |-> lines[p].id]

\* the text written to a file, as lines: a piece of text that does not end
\* with a newline is one line with the piece written after it (here the only
\* such piece is the last line of the input, and what follows it is "\n")
OutputLines(chunks) ==
    LET Starts(p) == p = 1 \/ chunks[p - 1].nl
        first == SelectSeq([p \in 1..Len(chunks) |-> p], Starts)
    IN [q \in 1..Len(first) |->
           LET c == chunks[first[q]]
           IN IF c.nl \/ first[q] = Len(chunks) THEN c
              ELSE IF chunks[first[q] + 1] = Newline THEN [c EXCEPT !.nl = TRUE]
              ELSE [c EXCEPT !.kind = "joined"]]

\* the postamble as the last lines of the output: the "\n" written after it
\* ends its last line when that line has no newline of its own, and is a
\* blank line otherwise
PostambleOut(post) ==
    IF post # <<>> /\ ~post[Len(post)].nl
    THEN [p \in 1..Len(post) |-> [post[p] EXCEPT !.nl = TRUE]]
    ELSE post \o <<Newline>>

(***************************************************************************)
(* C1.                                                                     *)
(***************************************************************************)
\* C1 as stated: when the run completes, the output is the preamble, the two
\* script lines (group 10, then group 11) directly after it, a blank line,
\* the grid flattened block by block, a blank line, the postamble and a
\* trailing blank line.
C1_ScriptsDirectlyAfterPreamble ==
    pc = "done" =>
        OutputLines(Written) =
            PreambleIn(Input)
            \o <<ScriptLine(10), ScriptLine(11), Newline>>
            \o Flatten(all_points)
            \o <<Newline>>
            \o PostambleIn(Input)
            \o <<Newline>>

\* C1 (amended): when the run completes, the output file is exactly: the
\* preamble, a blank line, the script line of group 10, the script line of
\* group 11, a blank line, the grid (the blocks of the input, closed by blank
\* lines) flattened block by block, a blank line, the postamble and the final
\* newline, which is a trailing blank line unless the last postamble line is
\* the last line of the input and lacks its newline.
C1_OutputLayout ==
    pc = "done" =>
        /\ out.exists
        /\ OutputLines(Written) =
               PreambleIn(Input)
               \o <<Newline, ScriptLine(10), ScriptLine(11), Newline>>
               \o Flatten(all_points)
               \o <<Newline>>
               \o PostambleOut(PostambleIn(Input))
        /\ Ids(Flatten(all_points)) = Ids(Flatten(BlocksIn(Input)))

\* a completed run on a file with a preamble, a grid and a postamble
C1_Witness ==
    /\ pc = "done"
    /\ PreambleIn(Input) # <<>>
    /\ PostambleIn(Input) # <<>>
    /\ Len(Written) > Len(PreambleIn(Input)) + Len(PostambleIn(Input)) + 5

(***************************************************************************)
(* The grid of the input, the grid written, and the cells accessed.        *)
(***************************************************************************)
\* all_points[cell[1]][cell[2]]
At(grid, cell) == grid[cell[1] + 1][cell[2] + 1]

CellOf(t) == <<t.row, t.col>>

\* the grid section of the output (after the preamble and the four lines
\* written after it) is the flattened grid
WrittenGridIs(grid) ==
    LET start == Len(PreambleIn(Input)) + 4
    IN SubSeq(OutputLines(Written), start + 1, start + Len(Flatten(grid)))
           = Flatten(grid)

SameShape(g, h) ==
    /\ Len(g) = Len(h)
    /\ \A r \in 1..Len(g) : Len(g[r]) = Len(h[r])

(***************************************************************************)
(* C2.                                                                     *)
(***************************************************************************)
\* C2 as stated: every accessed cell whose group is "0" or "1" in the input
\* has group 10 in the output if it was accessed with k = i and 11 if with
\* k = 98 - i, whether it is a cell all_points[k][j] or all_points[j+98][k].
C2_ZeroOrOneInEitherKind ==
    pc = "done" =>
        LET G == BlocksIn(Input)
        IN /\ WrittenGridIs(all_points)
           /\ \A x \in 1..Len(touched) :
                 LET t == touched[x]
                 IN At(G, CellOf(t)).group \in {"0", "1"} =>
                       At(all_points, CellOf(t)).group =
                           IF t.k = t.i THEN "10" ELSE "11"

\* C2 (amended): an accessed cell all_points[k][j] whose group is "0" in the
\* input, and an accessed cell all_points[j+98][k] whose group is "1" in the
\* input, has group 10 in the output if it was accessed with k = i and 11 if
\* with k = 98 - i; a cell all_points[k][j] with group "1" and a cell
\* all_points[j+98][k] with group "0" keep their group.
C2_GroupByKind ==
    pc = "done" =>
        LET G == BlocksIn(Input)
        IN /\ WrittenGridIs(all_points)
           /\ \A x \in 1..Len(touched) :
                 LET t == touched[x]
                     before == At(G, CellOf(t)).group
                     after == At(all_points, CellOf(t)).group
                 IN /\ t.k \in {t.i, 98 - t.i}
                    /\ (t.kind = 1 /\ before = "0") \/ (t.kind = 2 /\ before = "1")
                          => after = IF t.k = t.i THEN "10" ELSE "11"
                    /\ (t.kind = 1 /\ before = "1") \/ (t.kind = 2 /\ before = "0")
                          => after = before

\* a completed run in which a cell all_points[k][j] with group "0" was
\* accessed with k = 98 - i and one with group "1" was accessed too
C2_Witness ==
    /\ pc = "done"
    /\ LET G == BlocksIn(Input)
       IN /\ \E x \in 1..Len(touched) :
                /\ touched[x].kind = 1
                /\ touched[x].k # touched[x].i
                /\ At(G, CellOf(touched[x])).group = "0"
                /\ At(all_points, CellOf(touched[x])).group = "11"
          /\ \E x \in 1..Len(touched) :
                /\ touched[x].kind = 1
                /\ At(G, CellOf(touched[x])).group = "1"

(***************************************************************************)
(* C3.                                                                     *)
(***************************************************************************)
\* the input of the scenario: 196 blocks of 98 particle lines, every line
\* with fixed="0", group "0" in the first 98 blocks and "1" in the others
IsScenarioGrid(G) ==
    /\ Len(G) = 196
    /\ \A r \in 1..196 :
          /\ Len(G[r]) = 98
          /\ \A c \in 1..98 :
                /\ G[r][c].fixed = "0"
                /\ G[r][c].group = IF r <= 98 THEN "0" ELSE "1"

HasScriptLines ==
    \E p \in 1..(Len(Written) - 1) :
        /\ Written[p] = ScriptLine(10)
        /\ Written[p + 1] = ScriptLine(11)

\* the cells all_points[k][j] for k in rows and j in cols, with their
\* counterparts all_points[j + 98][k]
WithCounterparts(rows, cols) ==
    {<<k, jj>> : k \in rows, jj \in cols} \cup {<<jj + 98, k>> : k \in rows, jj \in cols}

\* C3 as stated: on the scenario's input the run changes exactly the cells of
\* rows 10-19 and 88-97 in columns 20-57, with their counterparts.
C3_Rows88To97Columns20To57 ==
    LET G == BlocksIn(Input)
        claimed == WithCounterparts((10..19) \cup (88..97), 20..57)
    IN pc = "done" /\ IsScenarioGrid(G) =>
          /\ SameShape(all_points, G)
          /\ \A r \in 0..195, c \in 0..97 :
                (At(all_points, <<r, c>>) # At(G, <<r, c>>)) <=> <<r, c>> \in claimed

\* C3 (amended): on the scenario's input the run changes exactly the cells of
\* rows 10-19 and of the mirrored rows 79-88 in columns 20-77, with their
\* counterparts all_points[j+98][k] (rows 118-175, columns 10-19 and 79-88);
\* a changed cell gets fixed="1" and group 10 (k in 10-19) or 11 (k in
\* 79-88); every other cell is unchanged, and the output holds the two
\* script lines of groups 10 and 11.
C3_Rows79To88Columns20To77 ==
    LET G == BlocksIn(Input)
        changed == WithCounterparts((10..19) \cup (79..88), 20..77)
    IN pc = "done" /\ IsScenarioGrid(G) =>
          /\ SameShape(all_points, G)
          /\ WrittenGridIs(all_points)
          /\ HasScriptLines
          /\ \A r \in 0..195, c \in 0..97 :
                (At(all_points, <<r, c>>) # At(G, <<r, c>>)) <=> <<r, c>> \in changed
          /\ \A k \in (10..19) \cup (79..88), jj \in 20..77 :
                \A cell \in {<<k, jj>>, <<jj + 98, k>>} :
                    At(all_points, cell) =
                        [At(G, cell) EXCEPT !.fixed = "1",
                                            !.group = IF k <= 19 THEN "10" ELSE "11"]

\* a completed run on the scenario's input
C3_Witness ==
    /\ pc = "done"
    /\ IsScenarioGrid(BlocksIn(Input))
    /\ At(all_points, <<88, 77>>).group = "11"
    /\ At(all_points, <<175, 10>>).group = "10"

(***************************************************************************)
(* C4.                                                                     *)
(***************************************************************************)
\* C4: the mutation changes nothing but the fixed and group attributes of
\* accessed cells: the grid keeps its shape and every line its place, a line
\* that is not accessed is written as it was read, and an accessed line
\* differs from the input at most by fixed "0" -> "1" and by group "0" or
\* "1" -> "10" or "11".
C4_OnlyFixedAndGroupOfAccessedCells ==
    pc = "done" =>
        LET G == BlocksIn(Input)
            cells == {CellOf(touched[x]) : x \in 1..Len(touched)}
        IN /\ SameShape(all_points, G)
           /\ WrittenGridIs(all_points)
           /\ \A r \in 1..Len(G) : \A c \in 1..Len(G[r]) :
                 LET before == G[r][c]
                     after == all_points[r][c]
                 IN IF <<r - 1, c - 1>> \notin cells
                    THEN after = before
                    ELSE /\ [after EXCEPT !.fixed = "-", !.group = "-"]
                              = [before EXCEPT !.fixed = "-", !.group = "-"]
                         /\ \/ after.fixed = before.fixed
                            \/ before.fixed = "0" /\ after.fixed = "1"
                         /\ \/ after.group = before.group
                            \/ before.group \in {"0", "1"} /\ after.group \in {"10", "11"}

\* a completed run on a grid with lines that were not accessed, an accessed
\* line that was changed and an accessed line with another group value
C4_Witness ==
    /\ pc = "done"
    /\ Len(Flatten(all_points)) > Len(touched)
    /\ LET G == BlocksIn(Input)
       IN /\ \E x \in 1..Len(touched) :
                At(all_points, CellOf(touched[x])) # At(G, CellOf(touched[x]))
          /\ \E x \in 1..Len(touched) :
                At(G, CellOf(touched[x])).group = "2"

(***************************************************************************)
(* C5.                                                                     *)
(***************************************************************************)
\* C5: every cell all_points[k][j] and all_points[j+98][k], for i in
\* [10, 20), j in [20, 78) and k in {i, 98 - i}, whose line has fixed="0" in
\* the input has fixed="1" in the output, whatever its group.
C5_FixedSet ==
    pc = "done" =>
        LET G == BlocksIn(Input)
        IN /\ WrittenGridIs(all_points)
           /\ \A ii \in 10..19, jj \in 20..77 : \A k \in {ii, 98 - ii} :
                 \A cell \in {<<k, jj>>, <<jj + 98, k>>} :
                     At(G, cell).fixed = "0" => At(all_points, cell).fixed = "1"

\* a completed run in which a line with fixed="0" whose group was not
\* rewritten has fixed="1"
C5_Witness ==
    /\ pc = "done"
    /\ LET G == BlocksIn(Input)
       IN \E jj \in 20..77 :
             /\ At(G, <<jj + 98, 88>>).fixed = "0"
             /\ At(G, <<jj + 98, 88>>).group = "2"
             /\ At(all_points, <<jj + 98, 88>>).fixed = "1"
             /\ At(all_points, <<jj + 98, 88>>).group = "2"

(***************************************************************************)
(* C6.                                                                     *)
(***************************************************************************)
\* the number of the last line that starts with <particle (0: none)
LastParticle(lines) ==
    LET at == SelectSeq([p \in 1..Len(lines) |-> p],
                        LAMBDA p : startswith_particle(lines[p]))
    IN IF at = <<>> THEN 0 ELSE at[Len(at)]

\* the lines that follow the last particle line
FollowingGrid(lines) == SubSeq(lines, LastParticle(lines) + 1, Len(lines))

\* the text of a line without its newline; every blank line counts as the
\* same text
TextOf(line) == IF is_blank(line) THEN Newline ELSE [line EXCEPT !.nl = TRUE]

\* the lines of a appear in b, in order
RECURSIVE Embeds(_, _)
Embeds(a, b) ==
    IF a = <<>> THEN TRUE
    ELSE IF b = <<>> THEN FALSE
    ELSE IF TextOf(Head(a)) = TextOf(Head(b)) THEN Embeds(Tail(a), Tail(b))
    ELSE Embeds(a, Tail(b))

\* C6 as stated: the lines before the first particle line, and the lines
\* that follow the particle grid, appear in the output complete and in order.
C6_LinesAfterGridKept ==
    pc = "done" =>
        LET L == OutputLines(Written)
        IN /\ SubSeq(L, 1, Len(PreambleIn(Input))) = PreambleIn(Input)
           /\ Embeds(FollowingGrid(Input), FollowingGrid(L))

FromInput(line) == line.id > 0 /\ ~startswith_particle(line)

\* C6 (amended): the lines before the first particle line, and the lines
\* after it that are neither particle lines nor blank (the postamble), appear
\* in the output verbatim, complete, once and in order, the preamble first in
\* the file and the postamble last (before the final newline); a blank line
\* after the first particle line only closes a block and is not written.
C6_PreambleAndPostambleKept ==
    pc = "done" =>
        LET L == OutputLines(Written)
            pre == PreambleIn(Input)
            post == PostambleIn(Input)
            last == PostambleOut(post)
        IN /\ SubSeq(L, 1, Len(pre)) = pre
           /\ SubSeq(L, Len(L) - Len(last) + 1, Len(L)) = last
           /\ Ids(SelectSeq(L, FromInput)) = Ids(pre \o post)

\* a completed run on a file with a blank line between two postamble lines
C6_Witness ==
    /\ pc = "done"
    /\ PreambleIn(Input) # <<>>
    /\ LET follow == FollowingGrid(Input)
       IN \E p \in 1..Len(follow) : \E q \in (p + 1)..Len(follow) :
             \E r \in (q + 1)..Len(follow) :
                IsPostLine(follow[p]) /\ is_blank(follow[q]) /\ IsPostLine(follow[r])

(***************************************************************************)
(* C7.                                                                     *)
(***************************************************************************)
\* C7: a cell all_points[k][j] has its group rewritten to the group id only
\* if its group is "0", a cell all_points[j+98][k] only if its group is "1";
\* an accessed cell with any other group keeps it; and the loops of lines
\* 33-49 run again on the mutated grid change nothing.
C7_SelectiveAndIdempotent ==
    pc = "open" =>
        LET G == BlocksIn(Input)
            again == Loops(TotalPasses, [grid |-> all_points, log |-> <<>>,
                                         m |-> 0, failed |-> FALSE])
        IN /\ \A x \in 1..Len(touched) :
                 LET t == touched[x]
                     before == At(G, CellOf(t)).group
                     after == At(all_points, CellOf(t)).group
                 IN after = IF before = (IF t.kind = 1 THEN "0" ELSE "1")
                            THEN (IF t.k = t.i THEN "10" ELSE "11")
                            ELSE before
           /\ ~again.failed
           /\ again.m = TotalPasses
           /\ again.grid = all_points

\* the loops are over on a grid whose accessed cells had groups "0", "1",
\* "10" and another value, in cells of both kinds
C7_Witness ==
    /\ pc = "open"
    /\ LET G == BlocksIn(Input)
       IN \A kind \in {1, 2} : \A g \in {"0", "1", "2", "10"} :
             \E x \in 1..Len(touched) :
                touched[x].kind = kind /\ At(G, CellOf(touched[x])).group = g

(***************************************************************************)
(* C8.                                                                     *)
(***************************************************************************)
\* C8: every particle line of the input, from the first on, is in the grid
\* once parsing is over, in the order of the input, and is written in the
\* grid section of the output; none is in the postamble.
C8_EveryParticleLineInGrid ==
    pc # "head" =>
        /\ Ids(Flatten(all_points)) = Ids(ParticlesIn(Input))
        /\ \A p \in 1..Len(post_point_contents) :
              ~startswith_particle(post_point_contents[p])
        /\ pc = "done" =>
              Ids(SelectSeq(OutputLines(Written), startswith_particle))
                  = Ids(ParticlesIn(Input))

(***************************************************************************)
(* C9.                                                                     *)
(***************************************************************************)
\* the grid lacks a cell the loops access: it has fewer than 176 blocks, or
\* a block among 10-19 and 79-88 has fewer than 78 lines, or a block among
\* 118-175 has fewer than 89 lines
Lacks(grid) ==
    \/ Len(grid) < 176
    \/ \E r \in (10..19) \cup (79..88) : Len(grid[r + 1]) < 78
    \/ \E r \in 118..175 : Len(grid[r + 1]) < 89

IsFullGrid(grid) ==
    /\ Len(grid) = 196
    /\ \A r \in 1..196 : Len(grid[r]) = 98

\* C9: on a grid that lacks a cell the loops access, the run ends with an
\* index error in the mutation step, without a pass beyond the missing cell
\* and with the output file neither created nor changed; the run gets to
\* open the output file only on a grid that lacks none; on a grid of 196
\* blocks of 98 lines there is no index error.
C9_IndexErrorBeforeOutput ==
    /\ pc \in {"head", "mutate", "IndexError"} => out = InitialOut(file)
    /\ pc = "IndexError" => Lacks(all_points)
    /\ pc = "mutate" =>
          \A ii \in ofs1..(i - 1) : \A jj \in 20..77 : \A k \in {ii, 98 - ii} :
              InRange(all_points, <<k, jj>>) /\ InRange(all_points, <<jj + 98, k>>)
    /\ pc \in {"open", "pre", "scripts", "grid", "post", "done"} => ~Lacks(all_points)
    /\ pc # "head" /\ IsFullGrid(all_points) => pc # "IndexError"

\* a run that ended with an index error on a grid of 176 blocks, after
\* iterations of the loop that went through, the output file left as it was
C9_Witness ==
    /\ pc = "IndexError"
    /\ Len(all_points) >= 176
    /\ i > ofs1
    /\ touched # <<>>
    /\ out = InitialOut(file)

(***************************************************************************)
(* C10.                                                                    *)
(***************************************************************************)
\* the passes of the loop body in the opposite order
RECURSIVE ReversedLoops(_, _)
ReversedLoops(hi, st) ==
    IF st.failed \/ st.m >= hi THEN st
    ELSE IF st.m + 1 = hi THEN LoopPass(st, TotalPasses - 1 - st.m)
    ELSE ReversedLoops(hi, ReversedLoops((st.m + hi) \div 2, st))

\* C10: no cell is accessed twice by the loops: the cells all_points[k][j]
\* (rows 10-19 and 79-88, columns 20-77) and all_points[j+98][k] (rows
\* 118-175, columns 10-19 and 79-88) accessed by a whole run of the loops are
\* 2320 different cells, so none is given both group 10 and group 11, and the
\* passes in the opposite order give the same grid.
C10_NoCellTwice ==
    LET cells == {CellOf(touched[x]) : x \in 1..Len(touched)}
        all == WithCounterparts((10..19) \cup (79..88), 20..77)
    IN /\ Cardinality(cells) = Len(touched)
       /\ cells \subseteq all
       /\ pc = "open" =>
             /\ Len(touched) = 2320
             /\ cells = all
             /\ ReversedLoops(TotalPasses, [grid |-> BlocksIn(Input), log |-> <<>>,
                                            m |-> 0, failed |-> FALSE]).grid
                    = all_points

\* the loops are over, 2320 accesses made
C10_Witness ==
    /\ pc = "open"
    /\ Len(touched) = 2320
    /\ \E x \in 1..Len(touched) : touched[x].k # touched[x].i

====
